---- MODULE Spec2Model ----
(***************************************************************************)
(* Model of the celo-sdk-py Wallet (src/sdk/wallet.py): key ring,          *)
(* fee configuration and the build / sign / broadcast pipeline of          *)
(* send_transaction with its gas-bump retry.                               *)
(*                                                                         *)
(* Python values are encoded as integers: None is -1, addresses and        *)
(* private keys are small positive integers.  A Python dict is a function  *)
(* whose DOMAIN is the set of keys the dict holds.                         *)
(***************************************************************************)
EXTENDS Integers, Sequences, FiniteSets, TLC

(* ----------------------------- bounds --------------------------------- *)
\* deepest nesting of recursive send_transaction calls that is explored
MaxDepth == 2
\* largest transaction count the node reports for an address
MaxNonce == 1

(* ------------------------ program constants --------------------------- *)
None == -1
DefaultGas == 10000000
GasIncreaseStep == 1000000
GasTooLow == "intrinsic gas too low"

(* ------------------------- input domains ------------------------------ *)
ValidKeys == {1, 2}
InvalidKeys == {0}
PrivKeys == ValidKeys \cup InvalidKeys
\* address derived from a private key by Account.from_key
AddrOf(k) == 10 + k
KeyAddresses == {AddrOf(k) : k \in ValidKeys}
\* arguments of change_account / remove_account: 19 is no key's address
AddressArgs == KeyAddresses \cup {19}
\* arguments of the address setters: 0 stands for a string that is no address
FeeCurrencyArgs == {20, 0}
GatewayRecipientArgs == {30, 0}
\* web3.isAddress on the encoded strings
isAddress(x) == x >= 10
IntArgs == {<<"int", 0>>, <<"int", 5>>, <<"str", 0>>}
GasSetArgs == {<<"int", 7000000>>, <<"str", 0>>}
CallGasArgs == {None, 0, 21000}
OraclePrices == {3}
Threads == {1}

\* Account.from_key(priv_key): a LocalAccount holding the key and its address
from_key(k) == [type |-> "LocalAccount", key |-> k, address |-> AddrOf(k)]
\* objects a caller can hand to the accounts setter
AccountObjects ==
    {from_key(k) : k \in ValidKeys}
    \cup {[type |-> "Account", key |-> None, address |-> None],
          [type |-> "Account", key |-> None, address |-> AddrOf(2)]}

\* replies of web3.eth.sendRawTransaction
ReplyOk == [type |-> "ok", literal |-> TRUE, message |-> ""]
NodeReplies ==
    {ReplyOk,
     [type |-> "ValueError", literal |-> TRUE, message |-> GasTooLow],
     [type |-> "ValueError", literal |-> TRUE, message |-> "nonce too low"],
     [type |-> "ValueError", literal |-> FALSE, message |-> "not a dict"],
     [type |-> "ConnectionError", literal |-> FALSE, message |-> ""]}

VARIABLES
    accounts,               \* Wallet.__accounts: address -> credential
    active_account,         \* Wallet.active_account
    fee_currency,           \* Wallet._fee_currency
    gateway_fee_recipient,  \* Wallet._gateway_fee_recipient
    gateway_fee,            \* Wallet._gateway_fee
    gas_price,              \* Wallet._gas_price
    gas,                    \* Wallet._gas
    gas_price_contract,     \* TRUE iff a GasPriceMinimum wrapper was given
    last_call,              \* the last wallet call: name, argument, exception
    nonce_of,               \* node: transaction count of each address
    pc,                     \* per caller: position inside send_transaction
    depth,                  \* per caller: nesting of recursive calls
    call_gas,               \* per caller: the gas argument of the current frame
    tx,                     \* per caller: <<tx>> built by the current frame
    signed,                 \* per caller: <<raw>> signed by the current frame
    txs,                    \* per caller: every transaction built by the call
    sent,                   \* per caller: every raw transaction broadcast
    accepted,               \* per caller: raw transactions the node accepted
    nonce_reads,            \* per caller: getTransactionCount requests
    oracle_reads,           \* per caller: gasPriceMinimum() requests
    outcome,                \* per caller: result of the last pipeline step
    ret,                    \* per caller: what send_transaction gave its caller
    sorted_list,            \* utils: the list object the caller passes in
    before,                 \* utils: its entries when the last call began
    change_list,            \* utils: the changes of the last call
    result,                 \* utils: what the last call returned or raised
    calls,                  \* utils: calls made on the list so far
    wrapper_call            \* contract wrappers: the last call and its outcome

walletVars == <<accounts, active_account, fee_currency, gateway_fee_recipient,
                gateway_fee, gas_price, gas, gas_price_contract>>
callVars == <<pc, depth, call_gas, tx, signed, txs, sent, accepted,
              nonce_reads, oracle_reads, outcome, ret>>
listVars == <<sorted_list, before, change_list, result, calls, wrapper_call>>
vars == <<walletVars, last_call, nonce_of, callVars, listVars>>

Called(op, arg, exc) == [op |-> op, arg |-> arg, raised |-> exc]

NoRet == [kind |-> "none", hash |-> <<>>, exc |-> "none"]
Raise(e) == [kind |-> "raise", hash |-> <<>>, exc |-> e]

\* Python truth value of an optional integer or address
Truthy(x) == x # None /\ x # 0

AllIdle == \A t \in DOMAIN pc : pc[t] = "idle"

(* ------------------------------ Init ---------------------------------- *)
\* the wallet after Wallet(web3, priv_key, gas_price_contract)
WalletInit ==
    /\ \E k \in ValidKeys :
          /\ active_account = from_key(k)
          /\ accounts = [a \in {AddrOf(k)} |-> from_key(k)]
    /\ gas_price_contract \in BOOLEAN
    /\ fee_currency = None
    /\ gateway_fee_recipient = None
    /\ gateway_fee = None
    /\ gas_price = None
    /\ gas = DefaultGas
    /\ last_call = Called("__init__", None, "none")
    /\ nonce_of = [a \in KeyAddresses |-> 0]

\* the callers in T have not called send_transaction yet
CallersInit(T) ==
    /\ pc = [t \in T |-> "idle"]
    /\ depth = [t \in T |-> 0]
    /\ call_gas = [t \in T |-> None]
    /\ tx = [t \in T |-> <<>>]
    /\ signed = [t \in T |-> <<>>]
    /\ txs = [t \in T |-> <<>>]
    /\ sent = [t \in T |-> <<>>]
    /\ accepted = [t \in T |-> <<>>]
    /\ nonce_reads = [t \in T |-> 0]
    /\ oracle_reads = [t \in T |-> 0]
    /\ outcome = [t \in T |-> "none"]
    /\ ret = [t \in T |-> NoRet]

NoResult == [op |-> "none", raised |-> FALSE, idx |-> None, lessers |-> <<>>,
             greaters |-> <<>>, sorted_list |-> <<>>]

\* no contract wrapper has been called
NoWrapperCall == [op |-> "none"]

\* no list has been handed to the utilities or fetched by a wrapper
ListUnused ==
    /\ sorted_list = <<>>
    /\ before = <<>>
    /\ change_list = <<>>
    /\ result = NoResult
    /\ calls = 0
    /\ wrapper_call = NoWrapperCall

Init == WalletInit /\ CallersInit(Threads) /\ ListUnused

(* --------------------------- key ring --------------------------------- *)
\* the wallet fields a key-ring operation or a setter leaves alone
KeyRingOnly ==
    UNCHANGED <<fee_currency, gateway_fee_recipient, gateway_fee, gas_price,
                gas, gas_price_contract, nonce_of, callVars, listVars>>

\* an update that throws the other entries away
DictReplace(d, a, c) == [x \in {a} |-> c]

\* dict.update({address: credential})
DictUpdate(d, a, c) ==
    [x \in DOMAIN d \cup {a} |-> IF x = a THEN c ELSE d[x]]

\* del dict[address]
DictDel(d, a) == [x \in DOMAIN d \ {a} |-> d[x]]

\* a membership test that looks at the active account instead of the mapping
HasAccountActiveOnly(a) == a = active_account.address

\* the membership test of change_account
HasAccount(a) == a \in DOMAIN accounts

\* filing the new credential under the address that was active before
AddKeyAddressStale(c) == active_account.address

\* the key under which add_new_key files the new credential
AddKeyAddress(c) == c.address

add_new_key(k) ==
    /\ AllIdle
    /\ IF k \in ValidKeys
       THEN /\ active_account' = from_key(k)
            /\ accounts' = DictUpdate(accounts, AddKeyAddress(from_key(k)),
                                      from_key(k))
            /\ last_call' = Called("add_new_key", k, "none")
       ELSE /\ last_call' = Called("add_new_key", k, "ValueError")
            /\ UNCHANGED <<accounts, active_account>>
    /\ KeyRingOnly

remove_account(a) ==
    /\ AllIdle
    /\ IF a \in DOMAIN accounts
       THEN /\ accounts' = DictDel(accounts, a)
            /\ last_call' = Called("remove_account", a, "none")
       ELSE /\ last_call' = Called("remove_account", a, "KeyError")
            /\ UNCHANGED accounts
    /\ UNCHANGED active_account
    /\ KeyRingOnly

change_account(a) ==
    /\ AllIdle
    /\ IF ~HasAccount(a)
       THEN /\ last_call' = Called("change_account", a, "KeyError")
            /\ UNCHANGED active_account
       ELSE IF a \notin DOMAIN accounts
       THEN \* self.__accounts[account_address] raises KeyError itself
            /\ last_call' = Called("change_account", a, "KeyError")
            /\ UNCHANGED active_account
       ELSE /\ active_account' = accounts[a]
            /\ last_call' = Called("change_account", a, "none")
    /\ UNCHANGED accounts
    /\ KeyRingOnly

\* the accounts setter: type(new_acc) must be exactly Account, and the
\* object must carry an address attribute
set_accounts(o) ==
    /\ AllIdle
    /\ IF o.type # "Account"
       THEN /\ last_call' = Called("set_accounts", o, "TypeError")
            /\ UNCHANGED <<accounts, active_account>>
       ELSE IF o.address = None
       THEN /\ last_call' = Called("set_accounts", o, "AttributeError")
            /\ UNCHANGED <<accounts, active_account>>
       ELSE /\ accounts' = DictUpdate(accounts, o.address, o)
            /\ active_account' = o
            /\ last_call' = Called("set_accounts", o, "none")
    /\ KeyRingOnly

(* ----------------------------- setters -------------------------------- *)
SetterOnly ==
    UNCHANGED <<accounts, active_account, gas_price_contract, nonce_of,
                callVars, listVars>>

set_gas_price(v) ==
    /\ AllIdle
    /\ IF v[1] # "int"
       THEN last_call' = Called("set_gas_price", v, "TypeError") /\ UNCHANGED gas_price
       ELSE gas_price' = v[2] /\ last_call' = Called("set_gas_price", v, "none")
    /\ UNCHANGED <<fee_currency, gateway_fee_recipient, gateway_fee, gas>>
    /\ SetterOnly

set_fee_currency(a) ==
    /\ AllIdle
    /\ IF ~isAddress(a)
       THEN last_call' = Called("set_fee_currency", a, "TypeError") /\ UNCHANGED fee_currency
       ELSE fee_currency' = a /\ last_call' = Called("set_fee_currency", a, "none")
    /\ UNCHANGED <<gateway_fee_recipient, gateway_fee, gas_price, gas>>
    /\ SetterOnly

\* the setter asks web3 for is_Address; has_attr says whether the web3
\* object in use provides an attribute of that name
set_gateway_fee_recipient(a, has_attr) ==
    /\ AllIdle
    /\ IF ~has_attr
       THEN last_call' = Called("set_gateway_fee_recipient", a, "AttributeError") /\ UNCHANGED gateway_fee_recipient
       ELSE IF ~isAddress(a)
       THEN last_call' = Called("set_gateway_fee_recipient", a, "TypeError") /\ UNCHANGED gateway_fee_recipient
       ELSE gateway_fee_recipient' = a /\ last_call' = Called("set_gateway_fee_recipient", a, "none")
    /\ UNCHANGED <<fee_currency, gateway_fee, gas_price, gas>>
    /\ SetterOnly

set_gateway_fee(v) ==
    /\ AllIdle
    /\ IF v[1] # "int"
       THEN last_call' = Called("set_gateway_fee", v, "TypeError") /\ UNCHANGED gateway_fee
       ELSE gateway_fee' = v[2] /\ last_call' = Called("set_gateway_fee", v, "none")
    /\ UNCHANGED <<fee_currency, gateway_fee_recipient, gas_price, gas>>
    /\ SetterOnly

set_gas(v) ==
    /\ AllIdle
    /\ IF v[1] # "int"
       THEN last_call' = Called("set_gas", v, "TypeError") /\ UNCHANGED gas
       ELSE gas' = v[2] /\ last_call' = Called("set_gas", v, "none")
    /\ UNCHANGED <<fee_currency, gateway_fee_recipient, gateway_fee,
                   gas_price>>
    /\ SetterOnly

(* -------------------- construct_transaction --------------------------- *)
\* what the node, the oracle and buildTransaction answer during one build:
\* oracle = None stands for a failed gasPriceMinimum() call
RpcOutcomes ==
    [nonce_ok : BOOLEAN, oracle : OraclePrices \cup {None}, build_ok : BOOLEAN]

\* a build that never looks at the fee currency
HasFeeCurrencyAlways == TRUE

\* `if self._fee_currency:`
HasFeeCurrency == Truthy(fee_currency)

\* `gas = gas if gas else self._gas`
BuildGas(g) == IF Truthy(g) THEN g ELSE gas

\* `self._gas_price if self._gas_price else ...`
HasGasPrice == Truthy(gas_price)

\* `gas_price = self._gas_price if self._gas_price else self.get_network_gas_price()`
BuildGasPrice(oracle) == IF HasGasPrice THEN gas_price ELSE oracle

\* get_network_gas_price() reaches gasPriceMinimum().call()
OracleQueried(rpc) ==
    rpc.nonce_ok /\ HasFeeCurrency /\ ~HasGasPrice /\ gas_price_contract

\* keys of the dict handed to buildTransaction
TxKeys ==
    {"gasPrice", "nonce", "gas", "from", "feeCurrency"}
    \cup (IF Truthy(gateway_fee_recipient) THEN {"gatewayFeeRecipient"} ELSE {})
    \cup (IF Truthy(gateway_fee) THEN {"gatewayFee"} ELSE {})

base_rows(g, nonce, oracle) ==
    [k \in TxKeys |->
        CASE k = "gasPrice" -> BuildGasPrice(oracle)
          [] k = "nonce" -> nonce
          [] k = "gas" -> BuildGas(g)
          [] k = "from" -> active_account.address
          [] k = "feeCurrency" -> fee_currency
          [] k = "gatewayFeeRecipient" -> gateway_fee_recipient
          [] k = "gatewayFee" -> gateway_fee]

\* the first thing that goes wrong inside the try block, "none" if nothing
ConstructError(rpc) ==
    IF ~rpc.nonce_ok THEN "nonce_error"
    ELSE IF ~HasFeeCurrency THEN "no_fee_currency"
    ELSE IF ~HasGasPrice /\ ~gas_price_contract THEN "no_gas_price_contract"
    ELSE IF ~HasGasPrice /\ rpc.oracle = None THEN "oracle_error"
    ELSE IF ~rpc.build_ok THEN "build_error"
    ELSE "none"

\* <<tx>> when the build returns a transaction, <<>> when it raises
construct_transaction(g, nonce, rpc) ==
    IF ConstructError(rpc) # "none" THEN <<>>
    ELSE <<base_rows(g, nonce, rpc.oracle)>>

(* ------------------------- send_transaction --------------------------- *)
\* signed_tx.rawTransaction
RawTransaction(t, cred) == [tx |-> t, signer |-> cred.key]
\* the hash the node computes for an accepted raw transaction, as hex
TxHash(raw) == [hash_of |-> raw]

\* the broadcast's reply as the caller of sendRawTransaction observes it
NodeSaid(reply) ==
    IF reply.type = "ok" THEN "sent_ok"
    ELSE IF reply.type # "ValueError" THEN "transport_error"
    ELSE IF ~reply.literal THEN "unreadable_error"
    ELSE reply.message

\* a retry test that accepts every node message
IsAnyMessage(m) == m # ""

\* `error_message == 'intrinsic gas too low'`
IsGasTooLow(m) == m = GasTooLow

\* what send_transaction does with the reply of the broadcast
ReplyAction(reply) ==
    IF reply.type = "ok" THEN "return"
    ELSE IF reply.type # "ValueError" THEN "raise Exception"
    ELSE IF ~reply.literal THEN "raise from literal_eval"
    ELSE IF IsGasTooLow(reply.message) THEN "retry"
    ELSE "raise ValueError"

\* a retry that repeats the gas of the failed attempt
RetryGasNoStep(g) == IF Truthy(g) THEN g ELSE gas

\* `gas = gas + self.gas_increase_step if gas else self._gas + self.gas_increase_step`
RetryGas(g) ==
    IF Truthy(g) THEN g + GasIncreaseStep ELSE gas + GasIncreaseStep

\* what the outermost frame hands to the caller when the frame at
\* nesting d returned the hash h: only `return self.push_tx_to_blockchain`
\* of the frame itself passes a value on, the retry call's value is dropped
ReturnValue(d, h) ==
    IF d = 0 THEN [kind |-> "hash", hash |-> <<h>>, exc |-> "none"]
    ELSE [kind |-> "None", hash |-> <<>>, exc |-> "none"]

\* a retry that stores the increased gas as the wallet's gas limit
StoredRetryGas(g) == RetryGas(g)

\* self._gas after the retry branch has increased the gas of attempt g:
\* the branch assigns the local `gas` only
WalletGasAfterRetry(g) == gas

SendOnly == UNCHANGED <<walletVars, last_call, nonce_of, listVars>>

send_transaction(t, g) ==
    /\ pc[t] = "idle"
    /\ pc' = [pc EXCEPT ![t] = "build"]
    /\ call_gas' = [call_gas EXCEPT ![t] = g]
    /\ last_call' = Called("send_transaction", g, "none")
    /\ UNCHANGED <<walletVars, nonce_of, depth, tx, signed, txs, sent,
                   accepted, nonce_reads, oracle_reads, outcome, ret,
                   listVars>>

Failed(t, why, exc) ==
    /\ pc' = [pc EXCEPT ![t] = "done"]
    /\ outcome' = [outcome EXCEPT ![t] = why]
    /\ ret' = [ret EXCEPT ![t] = Raise(exc)]

\* a wallet that keeps the nonce of the call's first build for its retries
CachedNonce(t, read) == IF txs[t] # <<>> THEN txs[t][1]["nonce"] ELSE read

\* a wallet that reserves nonces: it skips those of the transactions other
\* callers have built and not yet broadcast
ReservedNonce(t, read) ==
    read + Cardinality({u \in DOMAIN pc \ {t} : pc[u] \in {"sign", "push"}})

\* `nonce = self.web3.eth.getTransactionCount(...)` ... `'nonce': nonce`:
\* the nonce caller t puts into the transaction, given what the node returned
BuildNonce(t, read) == read

construct_step(t) ==
    /\ pc[t] = "build"
    /\ \E rpc \in RpcOutcomes :
         LET nonce == BuildNonce(t, nonce_of[active_account.address])
             built == construct_transaction(call_gas[t], nonce, rpc)
         IN /\ nonce_reads' = [nonce_reads EXCEPT ![t] = @ + 1]
            /\ oracle_reads' = [oracle_reads EXCEPT
                                  ![t] = @ + IF OracleQueried(rpc) THEN 1 ELSE 0]
            /\ IF built = <<>>
               THEN /\ Failed(t, ConstructError(rpc), "Exception")
                    /\ UNCHANGED <<tx, txs>>
               ELSE /\ tx' = [tx EXCEPT ![t] = built]
                    /\ txs' = [txs EXCEPT ![t] = Append(@, built[1])]
                    /\ pc' = [pc EXCEPT ![t] = "sign"]
                    /\ outcome' = [outcome EXCEPT ![t] = "built"]
                    /\ UNCHANGED ret
    /\ UNCHANGED <<depth, call_gas, signed, sent, accepted>>
    /\ SendOnly

sign_step(t) ==
    /\ pc[t] = "sign"
    /\ \E sign_ok \in BOOLEAN :
         IF active_account.key = None \/ ~sign_ok
         THEN /\ Failed(t, "sign_error", "Exception")
              /\ UNCHANGED signed
         ELSE /\ signed' = [signed EXCEPT
                              ![t] = <<RawTransaction(tx[t][1], active_account)>>]
              /\ pc' = [pc EXCEPT ![t] = "push"]
              /\ outcome' = [outcome EXCEPT ![t] = "signed"]
              /\ UNCHANGED ret
    /\ UNCHANGED <<depth, call_gas, tx, txs, sent, accepted, nonce_reads,
                   oracle_reads>>
    /\ SendOnly

push_step(t) ==
    /\ pc[t] = "push"
    /\ \E reply \in NodeReplies :
         LET raw == signed[t][1]
             act == ReplyAction(reply)
         IN /\ sent' = [sent EXCEPT ![t] = Append(@, raw)]
            /\ CASE act = "return" ->
                    /\ accepted' = [accepted EXCEPT ![t] = Append(@, raw)]
                    /\ pc' = [pc EXCEPT ![t] = "done"]
                    /\ outcome' = [outcome EXCEPT ![t] = NodeSaid(reply)]
                    /\ ret' = [ret EXCEPT
                                 ![t] = ReturnValue(depth[t], TxHash(raw))]
                    /\ UNCHANGED <<depth, call_gas, gas>>
                 [] act = "retry" ->
                    /\ depth[t] < MaxDepth
                    /\ depth' = [depth EXCEPT ![t] = @ + 1]
                    /\ call_gas' = [call_gas EXCEPT ![t] = RetryGas(@)]
                    /\ gas' = WalletGasAfterRetry(call_gas[t])
                    /\ pc' = [pc EXCEPT ![t] = "build"]
                    /\ outcome' = [outcome EXCEPT ![t] = NodeSaid(reply)]
                    /\ UNCHANGED <<accepted, ret>>
                 [] act = "raise ValueError" ->
                    /\ Failed(t, NodeSaid(reply), "ValueError")
                    /\ UNCHANGED <<accepted, depth, call_gas, gas>>
                 [] act = "raise from literal_eval" ->
                    /\ Failed(t, NodeSaid(reply), "SyntaxError")
                    /\ UNCHANGED <<accepted, depth, call_gas, gas>>
                 [] act = "raise Exception" ->
                    /\ Failed(t, NodeSaid(reply), "Exception")
                    /\ UNCHANGED <<accepted, depth, call_gas, gas>>
    /\ UNCHANGED <<tx, signed, txs, nonce_reads, oracle_reads>>
    /\ UNCHANGED <<accounts, active_account, fee_currency,
                   gateway_fee_recipient, gateway_fee, gas_price,
                   gas_price_contract, last_call, nonce_of, listVars>>

\* the caller has the result; the frame's locals are gone
return_step(t) ==
    /\ pc[t] = "done"
    /\ pc' = [pc EXCEPT ![t] = "idle"]
    /\ depth' = [depth EXCEPT ![t] = 0]
    /\ call_gas' = [call_gas EXCEPT ![t] = None]
    /\ tx' = [tx EXCEPT ![t] = <<>>]
    /\ signed' = [signed EXCEPT ![t] = <<>>]
    /\ txs' = [txs EXCEPT ![t] = <<>>]
    /\ sent' = [sent EXCEPT ![t] = <<>>]
    /\ accepted' = [accepted EXCEPT ![t] = <<>>]
    /\ nonce_reads' = [nonce_reads EXCEPT ![t] = 0]
    /\ oracle_reads' = [oracle_reads EXCEPT ![t] = 0]
    /\ outcome' = [outcome EXCEPT ![t] = "none"]
    /\ ret' = [ret EXCEPT ![t] = NoRet]
    /\ SendOnly

(* ------------------------------ node ---------------------------------- *)
\* a transaction of address a is mined: its transaction count grows
node_mine(a) ==
    /\ nonce_of[a] < MaxNonce
    /\ nonce_of' = [nonce_of EXCEPT ![a] = @ + 1]
    /\ UNCHANGED <<walletVars, last_call, callVars, listVars>>

(* --------------------------- specification ---------------------------- *)
Next ==
    \/ \E k \in PrivKeys : add_new_key(k)
    \/ \E a \in AddressArgs : remove_account(a)
    \/ \E a \in AddressArgs : change_account(a)
    \/ \E o \in AccountObjects : set_accounts(o)
    \/ \E v \in IntArgs : set_gas_price(v)
    \/ \E a \in FeeCurrencyArgs : set_fee_currency(a)
    \/ \E a \in GatewayRecipientArgs, h \in BOOLEAN :
          set_gateway_fee_recipient(a, h)
    \/ \E v \in IntArgs : set_gateway_fee(v)
    \/ \E v \in GasSetArgs : set_gas(v)
    \/ \E t \in DOMAIN pc, g \in CallGasArgs : send_transaction(t, g)
    \/ \E t \in DOMAIN pc : construct_step(t)
    \/ \E t \in DOMAIN pc : sign_step(t)
    \/ \E t \in DOMAIN pc : push_step(t)
    \/ \E t \in DOMAIN pc : return_step(t)
    \/ \E a \in KeyAddresses : node_mine(a)

Spec == Init /\ [][Next]_vars

TypeOK ==
    /\ DOMAIN accounts \subseteq KeyAddresses
    /\ \A t \in DOMAIN pc :
          /\ pc[t] \in {"idle", "build", "sign", "push", "done"}
          /\ depth[t] \in 0..MaxDepth
          /\ Len(txs[t]) <= MaxDepth + 1

(* ====================== send_transaction: retry ======================= *)
Callers == DOMAIN pc

\* C1: one call of send_transaction makes at most two broadcast attempts;
\* a gas-too-low reply to the retried attempt is raised, not retried again.
C1_AtMostTwoBroadcasts ==
    \A t \in Callers :
        /\ Len(sent[t]) <= 2
        /\ (outcome[t] = GasTooLow /\ Len(sent[t]) = 2) =>
              (pc[t] = "done" /\ ret[t].kind = "raise")

\* C2: whenever send_transaction finishes without raising, the caller holds
\* the hash of the broadcast the node accepted, also after a retry.
C2_ReturnsHashOfAccepted ==
    \A t \in Callers :
        (pc[t] = "done" /\ ret[t].kind # "raise") =>
            /\ accepted[t] # <<>>
            /\ ret[t].kind = "hash"
            /\ ret[t].hash = <<TxHash(accepted[t][Len(accepted[t])])>>

\* the fields of attempt i that do not depend on the gas argument are
\* those of the first attempt
SameConfigFields(a, b) ==
    /\ DOMAIN a = DOMAIN b
    /\ \A k \in DOMAIN a \ {"gas", "nonce", "gasPrice"} : a[k] = b[k]
    /\ HasGasPrice => a["gasPrice"] = b["gasPrice"]

RetriesAddStep(t) ==
    \A i \in 2..Len(txs[t]) :
        /\ txs[t][i]["gas"] = txs[t][i - 1]["gas"] + GasIncreaseStep
        /\ SameConfigFields(txs[t][i], txs[t][1])

\* C3 as stated: the first attempt carries the explicit gas argument if one
\* was given (any integer), otherwise the default gas limit, and every retry
\* carries the gas of the failed attempt plus gas_increase_step.
C3_Original ==
    \A t \in Callers :
        (last_call.op = "send_transaction" /\ Len(txs[t]) >= 1) =>
            /\ txs[t][1]["gas"] =
                  (IF last_call.arg # None THEN last_call.arg ELSE gas)
            /\ RetriesAddStep(t)

\* C3 (amended): the first attempt carries the explicit gas argument if a
\* non-zero one was given, otherwise the wallet's default gas limit; every
\* retried transaction carries the gas of the failed attempt plus
\* gas_increase_step, and its other configuration fields are rebuilt as in
\* the first attempt.
C3_RetryGas ==
    \A t \in Callers :
        (last_call.op = "send_transaction" /\ Len(txs[t]) >= 1) =>
            /\ txs[t][1]["gas"] =
                  (IF last_call.arg # None /\ last_call.arg # 0
                   THEN last_call.arg ELSE gas)
            /\ RetriesAddStep(t)

\* a retry was built after an explicit gas of 21000 and after the default
C3_Witness ==
    \E t \in Callers :
        /\ last_call.op = "send_transaction"
        /\ last_call.arg = 21000
        /\ Len(txs[t]) = 2
        /\ txs[t][2]["gas"] = 21000 + GasIncreaseStep
        /\ "gatewayFee" \in DOMAIN txs[t][2]

\* failures of the pipeline that are not the underpriced-gas reply
OtherFailures ==
    {"nonce_error", "no_fee_currency", "no_gas_price_contract",
     "oracle_error", "build_error", "sign_error", "nonce too low",
     "unreadable_error", "transport_error"}

\* C4: a retry (a deeper frame) starts only from a broadcast the node
\* answered with 'intrinsic gas too low'; after any other failure the call
\* is over with an exception, and a call that is over builds, signs and
\* broadcasts nothing more.
C4_RetryOnlyOnGasTooLow ==
    [][\A t \in Callers :
          /\ depth'[t] > depth[t] =>
                (pc[t] = "push" /\ outcome'[t] = GasTooLow)
          /\ (pc'[t] = "build" /\ pc[t] # "build") =>
                (pc[t] = "idle" \/ outcome'[t] = GasTooLow)
          /\ (outcome'[t] \in OtherFailures) =>
                (pc'[t] = "done" /\ ret'[t].kind = "raise")
          /\ pc[t] = "done" =>
                /\ Len(txs'[t]) <= Len(txs[t])
                /\ Len(sent'[t]) <= Len(sent[t])
                /\ pc'[t] \in {"done", "idle"}]_vars

\* a node error other than gas-too-low ended the call with ValueError
C4_Witness ==
    \E t \in Callers :
        /\ outcome[t] = "nonce too low"
        /\ pc[t] = "done"
        /\ ret[t] = Raise("ValueError")
        /\ Len(sent[t]) = 1

\* C5: while the fee currency is unset no build returns a transaction
\* record, whatever the other settings are, and send_transaction never
\* reaches the broadcast: it ends with an exception.
C5_NoFeeCurrencyNoTransaction ==
    fee_currency = None =>
        \A t \in Callers :
            /\ tx[t] = <<>> /\ txs[t] = <<>> /\ sent[t] = <<>>
            /\ pc[t] \in {"idle", "build", "done"}
            /\ pc[t] = "done" =>
                  (ret[t].kind = "raise" /\ outcome[t] \in OtherFailures)

\* a send failed for the missing fee currency with gas price and gateway
\* fee configured
C5_Witness ==
    \E t \in Callers :
        /\ fee_currency = None
        /\ gas_price = 5
        /\ gateway_fee = 5
        /\ pc[t] = "done"
        /\ outcome[t] = "no_fee_currency"
        /\ ret[t] = Raise("Exception")

(* ========================= gateway fee pair =========================== *)
\* C6: a transaction record holds gatewayFee and gatewayFeeRecipient
\* together or not at all; a build with exactly one of the two settings
\* fails instead of returning a record.
C6_GatewayFeePairComplete ==
    \A t \in Callers : \A i \in 1..Len(txs[t]) :
        ("gatewayFee" \in DOMAIN txs[t][i])
            <=> ("gatewayFeeRecipient" \in DOMAIN txs[t][i])

(* ============================= key ring =============================== *)
EntriesOwnAddress == \A a \in DOMAIN accounts : accounts[a].address = a
ActiveKnown == active_account.address \in DOMAIN accounts

\* C7 as stated: in every reachable state the active account's address is
\* a key of the mapping and every entry is stored under its own address.
C7_Original == ActiveKnown /\ EntriesOwnAddress

\* the steps that keep or establish the active account's entry
ActiveKnownKept ==
    /\ (ActiveKnown /\ ~remove_account(active_account.address))
          => ActiveKnown'
    /\ (\E k \in ValidKeys : add_new_key(k)) => ActiveKnown'
    /\ (\E a \in DOMAIN accounts : change_account(a)) => ActiveKnown'

\* C7 (amended): every mapping entry is stored under the address of its
\* own credential in every reachable state; the active account's address
\* is a key of the mapping after construction, after every successful
\* add_new_key and change_account, and stays one across every operation
\* other than remove_account of the active account's own address.
C7_KeyRing ==
    /\ ActiveKnown
    /\ []EntriesOwnAddress
    /\ [][ActiveKnownKept]_vars

\* the second key was added and the first one selected again
C7_Witness ==
    /\ Cardinality(DOMAIN accounts) = 2
    /\ last_call.op = "change_account"
    /\ last_call.raised = "none"
    /\ ActiveKnown
    /\ \A k \in ValidKeys : accounts[AddrOf(k)].type = "LocalAccount"

\* the mapping files the credential of key k under k's address
HasCred(k) ==
    AddrOf(k) \in DOMAIN accounts /\ accounts[AddrOf(k)] = from_key(k)

\* C8: add_new_key(k) with a valid key puts k's address into the mapping
\* and makes k's credential active; add_new_key of any key keeps the entry
\* of k; and while the entry is there change_account(address of k)
\* succeeds and makes k's credential the active account.
C8_AddThenChangeRoundTrip ==
    [][\A k \in ValidKeys :
          /\ add_new_key(k) =>
                /\ HasCred(k)'
                /\ active_account' = from_key(k)
                /\ last_call'.raised = "none"
          /\ \A j \in PrivKeys : (HasCred(k) /\ add_new_key(j)) => HasCred(k)'
          /\ (HasCred(k) /\ change_account(AddrOf(k))) =>
                /\ active_account' = from_key(k)
                /\ last_call'.raised = "none"
                /\ UNCHANGED accounts]_vars

\* key 1 is active again by change_account while key 2 is in the wallet
C8_Witness ==
    /\ last_call = Called("change_account", AddrOf(1), "none")
    /\ active_account = from_key(1)
    /\ HasCred(1) /\ HasCred(2)

\* C9: change_account(a) raises the unknown-address KeyError exactly when
\* a is not a key of the mapping, and then leaves the active account and
\* the mapping as they were.
C9_ChangeAccountUnknown ==
    [][\A a \in AddressArgs :
          change_account(a) =>
              /\ (last_call'.raised = "KeyError") <=> (a \notin DOMAIN accounts)
              /\ last_call'.raised \in {"none", "KeyError"}
              /\ (a \notin DOMAIN accounts) =>
                    UNCHANGED <<accounts, active_account>>]_vars

\* an address that is in no mapping entry was refused
C9_Witness ==
    /\ last_call = Called("change_account", 19, "KeyError")
    /\ Cardinality(DOMAIN accounts) = 2

(* ============================= gas price ============================== *)
\* C10: once a gas price has been configured through the setter (any
\* integer), every built transaction carries it and the oracle is not
\* queried.
C10_ConfiguredGasPriceUsed ==
    \A t \in Callers :
        gas_price # None =>
            /\ oracle_reads[t] = 0
            /\ \A i \in 1..Len(txs[t]) : txs[t][i]["gasPrice"] = gas_price

(* ============================== nonces ================================ *)
\* calls of construct_transaction made so far by the current call of
\* send_transaction: one per frame that has passed its build
BuildAttempts(t) ==
    depth[t] + (IF pc[t] \in {"sign", "push", "done"} THEN 1 ELSE 0)

\* the transaction a build adds carries the node's count of that moment
FreshNonce ==
    \A t \in Callers :
        (construct_step(t) /\ Len(txs'[t]) = Len(txs[t]) + 1) =>
            txs'[t][Len(txs'[t])]["nonce"] = nonce_of[active_account.address]

\* C11: every build, the build of a retry included, asks the node for the
\* transaction count of the active address: the requests made by a call are
\* as many as its build attempts, and each built transaction carries the
\* count the node holds when it is built, not one kept from earlier.
C11_FreshNonceEveryBuild ==
    /\ [](\A t \in Callers :
            pc[t] # "idle" => nonce_reads[t] = BuildAttempts(t))
    /\ [][FreshNonce]_vars

\* a retry was built after the node's count had moved on
C11_Witness ==
    \E t \in Callers :
        /\ Len(txs[t]) = 2
        /\ nonce_reads[t] = 2
        /\ txs[t][1]["nonce"] = 0
        /\ txs[t][2]["nonce"] = 1

(* ======================= concurrent callers =========================== *)
\* two threads call send_transaction on one wallet
ConcThreads == {1, 2}
ConcGasArgs == {None}

InitConc == WalletInit /\ CallersInit(ConcThreads) /\ ListUnused

NextConc ==
    \/ \E a \in FeeCurrencyArgs : set_fee_currency(a)
    \/ \E t \in DOMAIN pc, g \in ConcGasArgs : send_transaction(t, g)
    \/ \E t \in DOMAIN pc : construct_step(t)
    \/ \E t \in DOMAIN pc : sign_step(t)
    \/ \E t \in DOMAIN pc : push_step(t)
    \/ \E t \in DOMAIN pc : return_step(t)
    \/ \E a \in KeyAddresses : node_mine(a)

SpecConc == InitConc /\ [][NextConc]_vars

\* caller u holds a built, not yet broadcast transaction of the active
\* address that carries the node's present count
HoldsCurrentNonce(u) ==
    /\ pc[u] \in {"sign", "push"}
    /\ tx[u][1]["from"] = active_account.address
    /\ tx[u][1]["nonce"] = nonce_of[active_account.address]

\* a build by t while u holds the present count takes the same count
NoReservation ==
    \A t \in Callers : \A u \in Callers \ {t} :
        (HoldsCurrentNonce(u) /\ construct_step(t)
            /\ Len(txs'[t]) = Len(txs[t]) + 1) =>
                /\ txs'[t][Len(txs'[t])]["nonce"] = tx[u][1]["nonce"]
                /\ txs'[t][Len(txs'[t])]["from"] = tx[u][1]["from"]

\* C12: nothing in the wallet keeps two concurrent send_transaction calls
\* apart: a caller that builds while another caller holds an unsent
\* transaction with the node's present count gets that same count, and
\* both go on to broadcast it (the state of C12_Witness is reachable).
C12_NoNonceReservation == [][NoReservation]_vars

\* both callers read the same count once and both broadcast a transaction
\* of the same sender carrying it
C12_Witness ==
    /\ \A t \in Callers : nonce_reads[t] = 1 /\ Len(sent[t]) = 1
    /\ Cardinality(Callers) = 2
    /\ \E n \in 0..MaxNonce :
          \A t \in Callers :
              /\ sent[t][1].tx["nonce"] = n
              /\ sent[t][1].tx["from"] = active_account.address

(* ==================== sorted linked-list utilities ==================== *)
(* src/celo_sdk/utils/utils.py.  An entry is {'address': a, 'value': v};   *)
(* addresses are small integers and 0 is the zero address.  List indices   *)
(* are Python's (from 0); element i of a Python list l is l[i + 1] here.   *)

\* bounds of the lists and calls that are explored
MaxVal == 3
MaxChanges == 2
MaxCalls == 2

NULL_ADDRESS == 0

Entry(a, v) == [address |-> a, value |-> v]
\* the keys of the generated lists
ListKeys == {1, 2, 3}
ListVals == 0..MaxVal
\* the changes of single calls; a list of fewer entries lacks some key
Changes == {Entry(a, v) : a \in ListKeys, v \in ListVals}
\* the changes batches are made of: those of the example and one more
BatchChanges == {Entry(3, 2), Entry(2, 0), Entry(1, 1)}
ChangeLists == UNION {[1..n -> BatchChanges] : n \in 0..MaxChanges}

\* the list of the examples in src/sdk/utils/utils.py
Example ==
    <<Entry(1, 7), Entry(2, 5), Entry(3, 4), Entry(4, 3), Entry(5, 2),
      Entry(6, 2), Entry(7, 1)>>

DistinctKeys(l) ==
    \A i, j \in 1..Len(l) : l[i].address = l[j].address => i = j
NonIncreasing(l) ==
    \A i \in 1..(Len(l) - 1) : l[i].value >= l[i + 1].value
StrictlyDescending(l) ==
    \A i \in 1..(Len(l) - 1) : l[i].value > l[i + 1].value

\* the lists callers fetch from the contracts: sorted from the greatest
\* value to the lowest, one entry per key
InputLists ==
    {l \in UNION {[1..n -> {Entry(a, v) : a \in ListKeys, v \in ListVals}] :
                     n \in 0..Cardinality(ListKeys)} :
        DistinctKeys(l) /\ NonIncreasing(l)}
    \cup {Example}

\* `for ind, el in enumerate(sorted_list): if el['address'] == ...: break`
OldIdx(l, c) ==
    LET hits == {i \in 1..Len(l) : l[i].address = c.address}
    IN IF hits = {} THEN None
       ELSE (CHOOSE i \in hits : \A j \in hits : i <= j) - 1

\* a test that takes index 0 for "not found"
NotFoundFalsy(idx) == idx = None \/ idx = 0

\* `if old_idx == None`
NotFound(idx) == idx = None

\* a removal that leaves the old entry in the list
DelNothing(l, p) == l

\* `del sorted_list[p]`
Del(l, p) == SubSeq(l, 1, p) \o SubSeq(l, p + 2, Len(l))

\* a comparison that also stops at an equal value
SmallerOrEqual(el, c) == el.value <= c.value

\* `el['value'] < change['value']`
Smaller(el, c) == el.value < c.value

\* `for ind, el in enumerate(sorted_list): if el['value'] < ...: break`
NewIdx(l, c) ==
    LET hits == {i \in 1..Len(l) : Smaller(l[i], c)}
    IN IF hits = {} THEN None
       ELSE (CHOOSE i \in hits : \A j \in hits : i <= j) - 1

\* an insertion one place too far towards the tail
InsertAfter(l, p, c) ==
    SubSeq(l, 1, p + 1) \o <<c>> \o SubSeq(l, p + 2, Len(l))

\* `sorted_list.insert(p, change)`
Insert(l, p, c) == SubSeq(l, 1, p) \o <<c>> \o SubSeq(l, p + 1, Len(l))

\* upsert: the list as the call leaves it and the index it returns
upsert(l, c) ==
    LET old == OldIdx(l, c)
    IN IF NotFound(old)
       THEN [raised |-> TRUE, list |-> l, idx |-> None]
       ELSE LET rest == Del(l, old)
                new == NewIdx(rest, c)
            IN IF new = None
               THEN [raised |-> FALSE, list |-> Append(rest, c),
                     idx |-> Len(rest)]
               ELSE [raised |-> FALSE, list |-> Insert(rest, new, c),
                     idx |-> new]

\* a lookup that takes the entry two places towards the head
GreaterOfSkipping(l, idx) ==
    IF idx <= 1 THEN NULL_ADDRESS ELSE l[idx - 1].address

\* `greater = '0x00..' if idx == 0 else sorted_list[idx - 1]['address']`
GreaterOf(l, idx) == IF idx = 0 THEN NULL_ADDRESS ELSE l[idx].address

\* a lookup that answers with the changed entry's own key
LesserOfSelf(l, idx) ==
    IF idx = Len(l) - 1 THEN NULL_ADDRESS ELSE l[idx + 1].address

\* `lesser = '0x00..' if idx == len(sorted_list) - 1 else sorted_list[idx + 1]['address']`
LesserOf(l, idx) ==
    IF idx = Len(l) - 1 THEN NULL_ADDRESS ELSE l[idx + 2].address

linked_list_change(l, c) ==
    LET u == upsert(l, c)
    IN IF u.raised
       THEN [raised |-> TRUE, list |-> u.list, lesser |-> NULL_ADDRESS,
             greater |-> NULL_ADDRESS]
       ELSE [raised |-> FALSE, list |-> u.list,
             lesser |-> LesserOf(u.list, u.idx),
             greater |-> GreaterOf(u.list, u.idx)]

\* a loop that hands every iteration the list as it was passed in
CarriedSnapshot(l, r) == l

\* the list the next iteration works on: the same list object, as the
\* iteration before left it
Carried(l, r) == r.list

\* the loop of linked_list_changes from change i on, with the list and the
\* two result lists as the earlier iterations left them
RECURSIVE ChangesLoop(_, _, _, _, _)
ChangesLoop(l, cs, i, lessers, greaters) ==
    IF i > Len(cs)
    THEN [raised |-> FALSE, list |-> l, lessers |-> lessers,
          greaters |-> greaters]
    ELSE LET r == linked_list_change(l, cs[i])
         IN IF r.raised
            THEN [raised |-> TRUE, list |-> r.list, lessers |-> <<>>,
                  greaters |-> <<>>]
            ELSE ChangesLoop(Carried(l, r), cs, i + 1,
                             Append(lessers, r.lesser),
                             Append(greaters, r.greater))

linked_list_changes(l, cs) == ChangesLoop(l, cs, 1, <<>>, <<>>)

ListOnly == UNCHANGED <<walletVars, last_call, nonce_of, callVars, wrapper_call>>

\* a list the call works on without touching the caller's
WorkOnCopy(l, out) == l

\* the list the caller passed in, after the call: the utilities work on the
\* caller's own list object (del, insert, append), never on a copy
CallersList(l, out) == out

\* a caller runs upsert(sorted_list, c)
call_upsert(c) ==
    /\ calls < MaxCalls
    /\ LET u == upsert(sorted_list, c)
       IN /\ sorted_list' = CallersList(sorted_list, u.list)
          /\ result' = [op |-> "upsert", raised |-> u.raised, idx |-> u.idx,
                        lessers |-> <<>>, greaters |-> <<>>,
                        sorted_list |-> <<>>]
    /\ before' = sorted_list
    /\ change_list' = <<c>>
    /\ calls' = calls + 1
    /\ ListOnly

\* a caller runs linked_list_change(sorted_list, c); the returned lesser
\* and greater are kept as one-element lists
call_linked_list_change(c) ==
    /\ calls < MaxCalls
    /\ LET r == linked_list_change(sorted_list, c)
       IN /\ sorted_list' = CallersList(sorted_list, r.list)
          /\ result' = [op |-> "linked_list_change", raised |-> r.raised,
                        idx |-> None,
                        lessers |-> IF r.raised THEN <<>> ELSE <<r.lesser>>,
                        greaters |-> IF r.raised THEN <<>> ELSE <<r.greater>>,
                        sorted_list |-> <<>>]
    /\ before' = sorted_list
    /\ change_list' = <<c>>
    /\ calls' = calls + 1
    /\ ListOnly

\* a caller runs linked_list_changes(sorted_list, cs)
call_linked_list_changes(cs) ==
    /\ calls < MaxCalls
    /\ LET r == linked_list_changes(sorted_list, cs)
       IN /\ sorted_list' = CallersList(sorted_list, r.list)
          /\ result' = [op |-> "linked_list_changes", raised |-> r.raised,
                        idx |-> None, lessers |-> r.lessers,
                        greaters |-> r.greaters,
                        sorted_list |-> IF r.raised THEN <<>> ELSE r.list]
    /\ before' = sorted_list
    /\ change_list' = cs
    /\ calls' = calls + 1
    /\ ListOnly

\* a caller holds a freshly fetched list and has called nothing yet; the
\* utilities take no wallet, so one wallet stands for all
InitList ==
    /\ WalletInit
    /\ active_account.key = 1
    /\ ~gas_price_contract
    /\ CallersInit(Threads)
    /\ sorted_list \in InputLists
    /\ before = sorted_list
    /\ change_list = <<>>
    /\ result = NoResult
    /\ calls = 0
    /\ wrapper_call = NoWrapperCall

NextList ==
    \/ \E c \in Changes : call_upsert(c)
    \/ \E c \in Changes : call_linked_list_change(c)
    \/ \E cs \in ChangeLists : call_linked_list_changes(cs)

SpecList == InitList /\ [][NextList]_vars

(* ------------------------- claims on the lists ------------------------ *)
\* the last call was a single change (upsert or linked_list_change)
SingleChange == result.op \in {"upsert", "linked_list_change"}
\* the change of the last single call
TheChange == change_list[1]
HasKey(l, a) == \E i \in 1..Len(l) : l[i].address = a
\* the entries of l other than the one of key a, in their order
Others(l, a) == SelectSeq(l, LAMBDA e : e.address # a)
\* position (from 1) of key a in l
PosOf(l, a) == CHOOSE i \in 1..Len(l) : l[i].address = a

\* the case of C13: a strictly descending list of distinct keys and a change
\* of a key it holds to a value no other entry has
DistinctValuesCase ==
    /\ SingleChange
    /\ StrictlyDescending(before)
    /\ DistinctKeys(before)
    /\ HasKey(before, TheChange.address)
    /\ \A i \in 1..Len(before) :
          before[i].address # TheChange.address
              => before[i].value # TheChange.value

\* C13: upsert / linked_list_change on a strictly descending list of
\* distinct keys, with a change of a present key to a value that differs
\* from every other entry's value, leaves the list strictly descending.
C13_StrictOrderPreserved ==
    DistinctValuesCase => ~result.raised /\ StrictlyDescending(sorted_list)

\* an entry of a three-entry list moved to another place
C13_Witness ==
    /\ DistinctValuesCase
    /\ Len(before) = 3
    /\ PosOf(before, TheChange.address) # PosOf(sorted_list, TheChange.address)
    /\ StrictlyDescending(sorted_list)

\* linked_list_change returned a lesser / greater pair
ChangeReturned == result.op = "linked_list_change" /\ ~result.raised
lesser == result.lessers[1]
greater == result.greaters[1]
\* key of the entry at position p of l, the zero address outside l
KeyAt(l, p) == IF p \in 1..Len(l) THEN l[p].address ELSE NULL_ADDRESS

\* C14: linked_list_change returns the neighbours of the place where the
\* change ends up in the resulting list: greater is the key of the entry
\* immediately before it, the zero address at the head; lesser is the key
\* of the entry immediately after it, the zero address at the tail.
C14_NeighboursOfNewPosition ==
    ChangeReturned =>
        LET p == PosOf(sorted_list, TheChange.address)
        IN /\ sorted_list[p] = TheChange
           /\ greater = KeyAt(sorted_list, p - 1)
           /\ lesser = KeyAt(sorted_list, p + 1)

\* a change that ends up between two other entries
C14_Witness ==
    /\ ChangeReturned
    /\ lesser # NULL_ADDRESS
    /\ greater # NULL_ADDRESS
    /\ lesser # greater
    /\ before # sorted_list

\* the new value is greater than the value of every entry of the list
NewMaximum ==
    /\ HasKey(before, TheChange.address)
    /\ \A i \in 1..Len(before) : TheChange.value > before[i].value

\* C15 as stated: a change of a present key to a value greater than every
\* entry's returns greater = zero address and lesser = the key that was at
\* the head before the change.
C15_Original ==
    (ChangeReturned /\ NewMaximum) =>
        greater = NULL_ADDRESS /\ lesser = KeyAt(before, 1)

\* C15: such a change returns greater = zero address and lesser = the key at
\* the head of the other entries: the previous head, or, when the changed
\* key was the head itself, the entry that followed it (the zero address
\* when the list holds no other entry).
C15_NewMaximum ==
    (ChangeReturned /\ NewMaximum) =>
        /\ greater = NULL_ADDRESS
        /\ lesser = KeyAt(Others(before, TheChange.address), 1)

\* the head of a list of three is raised above all: its lesser is the
\* entry that followed it
C15_Witness ==
    /\ ChangeReturned
    /\ NewMaximum
    /\ Len(before) = 3
    /\ before[1].address = TheChange.address
    /\ lesser = before[2].address

\* the new value is smaller than the value of every entry of the list
NewMinimum ==
    /\ HasKey(before, TheChange.address)
    /\ \A i \in 1..Len(before) : TheChange.value < before[i].value

\* C16 as stated: a change of a present key to a value smaller than every
\* entry's returns lesser = zero address and greater = the key that was at
\* the tail before the change.
C16_Original ==
    (ChangeReturned /\ NewMinimum) =>
        lesser = NULL_ADDRESS /\ greater = KeyAt(before, Len(before))

\* C16: such a change returns lesser = zero address and greater = the key at
\* the tail of the other entries: the previous tail, or, when the changed
\* key was the tail itself, the entry before it (the zero address when the
\* list holds no other entry).
C16_NewMinimum ==
    (ChangeReturned /\ NewMinimum) =>
        /\ lesser = NULL_ADDRESS
        /\ greater = KeyAt(Others(before, TheChange.address),
                           Len(before) - 1)

\* the tail of a list of three is lowered below all: its greater is the
\* entry before it
C16_Witness ==
    /\ ChangeReturned
    /\ NewMinimum
    /\ Len(before) = 3
    /\ before[3].address = TheChange.address
    /\ greater = before[2].address

\* C17: upsert, and with it linked_list_change, raises exactly when no
\* entry of the list has the change's key; with the key present it never
\* raises, whatever the values, also on a list of one entry.
C17_RaisesIffKeyAbsent ==
    SingleChange => (result.raised <=> ~HasKey(before, TheChange.address))

\* the key is at the head of the list, the only entry, and the call returns
C17_Witness ==
    /\ SingleChange
    /\ Len(before) = 1
    /\ before[1].address = TheChange.address
    /\ ~result.raised

\* the entry of key a is at its place by the insertion rule: the others
\* keep their order, every one before it has a value >= v and the one
\* right after it, if any, a value < v
PlacedByRule(l, old, c) ==
    LET rest == Others(old, c.address)
        p == PosOf(l, c.address)
    IN /\ l[p] = c
       /\ Others(l, c.address) = rest
       /\ \A i \in 1..(p - 1) : rest[i].value >= c.value
       /\ p <= Len(rest) => rest[p].value < c.value

\* C18: the changed entry is put back immediately before the first
\* remaining entry whose value is strictly less than the new value, so after
\* every remaining entry of equal value, and at the tail when none is
\* smaller; on the 7-entry example the change (3, 2) returns lesser = 7,
\* greater = 6.
C18_InsertBeforeFirstSmaller ==
    /\ (SingleChange /\ ~result.raised /\ DistinctKeys(before))
           => PlacedByRule(sorted_list, before, TheChange)
    /\ (ChangeReturned /\ before = Example /\ TheChange = Entry(3, 2))
           => lesser = 7 /\ greater = 6

\* the change (3, 2) on the example: the entry goes behind the two entries
\* of value 2
C18_Witness ==
    /\ ChangeReturned
    /\ before = Example
    /\ TheChange = Entry(3, 2)
    /\ PosOf(sorted_list, 3) = 6
    /\ lesser = 7

\* the list after linked_list_change was applied to the first i changes of
\* cs, one after another
RECURSIVE AppliedInTurn(_, _, _)
AppliedInTurn(l, cs, i) ==
    IF i = 0 THEN l
    ELSE linked_list_change(AppliedInTurn(l, cs, i - 1), cs[i]).list

\* what linked_list_change answers for change i of cs when the changes
\* before it have been applied
TurnOf(l, cs, i) == linked_list_change(AppliedInTurn(l, cs, i - 1), cs[i])

BatchCalled == result.op = "linked_list_changes"

\* C19: linked_list_changes equals linked_list_change applied to the
\* changes one after another on the same list: it raises exactly when one
\* of these calls raises; otherwise lessers and greaters have one element
\* per change, in change order, each computed on the list as the changes
\* before it left it, and the returned sorted_list is the list after all
\* changes; on the 7-entry example the changes (3, 2), (2, 0) return
\* greaters [6, 7] and lessers [7, zero address].
C19_BatchIsSequentialChange ==
    /\ BatchCalled =>
          LET n == Len(change_list)
          IN /\ result.raised <=>
                    \E i \in 1..n : TurnOf(before, change_list, i).raised
             /\ ~result.raised =>
                   /\ Len(result.lessers) = n
                   /\ Len(result.greaters) = n
                   /\ \A i \in 1..n :
                         /\ result.lessers[i] =
                                TurnOf(before, change_list, i).lesser
                         /\ result.greaters[i] =
                                TurnOf(before, change_list, i).greater
                   /\ result.sorted_list =
                         AppliedInTurn(before, change_list, n)
    /\ (BatchCalled /\ before = Example
           /\ change_list = <<Entry(3, 2), Entry(2, 0)>>)
          => /\ result.greaters = <<6, 7>>
             /\ result.lessers = <<7, NULL_ADDRESS>>

\* the batch of the example has returned its two pairs
ExampleBatchReturned ==
    /\ BatchCalled
    /\ ~result.raised
    /\ before = Example
    /\ change_list = <<Entry(3, 2), Entry(2, 0)>>
    /\ result.greaters = <<6, 7>>

\* a batch of two changes whose second pair differs from the pair the
\* second change gets on the list as it was passed in
C19_Witness ==
    /\ BatchCalled
    /\ ~result.raised
    /\ Len(change_list) = 2
    /\ result.greaters[2] # linked_list_change(before, change_list[2]).greater
    /\ result.sorted_list = sorted_list

\* linked_list_change or linked_list_changes has returned
Returned ==
    result.op \in {"linked_list_change", "linked_list_changes"}
        /\ ~result.raised

RatesExample == <<Entry(2, 20), Entry(3, 17), Entry(1, 15)>>

\* the lists the contracts return
ChainLists == InputLists \cup {RatesExample}
\* the oracle or group of a call: 4 is in none of the generated lists
KeyArgs == ListKeys \cup {4}
\* the reported value or resulting votes of a call
ValueArgs == ListVals \cup {16}

\* a comparison that lets an equal rate pass
Below(el, value) == el.value < value

\* `rate['rate'] <= value` / `vote['votes'] <= vote_total`
AtMost(el, value) == el.value <= value

\* the loop of find_lesser_and_greater_keys (the same loop is in
\* find_lesser_and_greater_after_vote) from entry i on, with greater_key as
\* the entries before left it
RECURSIVE NeighbourScan(_, _, _, _, _)
NeighbourScan(entries, i, own, value, greater_key) ==
    IF i > Len(entries)
    THEN [lesser |-> NULL_ADDRESS, greater |-> greater_key]
    ELSE IF entries[i].address # own
         THEN IF AtMost(entries[i], value)
              THEN [lesser |-> entries[i].address, greater |-> greater_key]
              ELSE NeighbourScan(entries, i + 1, own, value,
                                 entries[i].address)
         ELSE NeighbourScan(entries, i + 1, own, value, greater_key)

\* SortedOracles.find_lesser_and_greater_keys on the rates get_rates returns
find_lesser_and_greater_keys(current_rates, value, oracle_address) ==
    NeighbourScan(current_rates, 1, oracle_address, value, NULL_ADDRESS)

\* `len(res[0], res[1])`: the builtin len takes exactly one argument and
\* raises TypeError when it is given two
len_of_two(a, b) == [raised |-> "TypeError", value |-> None]

\* Election.get_eligible_validator_groups_votes on the contract's answer
\* res: the groups and their votes
get_eligible_validator_groups_votes(res) ==
    LET length == len_of_two(res, res)
    IN IF length.raised # "none"
       THEN [raised |-> length.raised, list |-> <<>>]
       ELSE [raised |-> "none", list |-> SubSeq(res, 1, length.value)]

\* the vote weights of a call: a vote adds, a revocation takes away
WeightArgs == {-1, 1, 2}

\* Election.find_lesser_and_greater_after_vote
find_lesser_and_greater_after_vote(res, voted_group, vote_weight) ==
    LET current_votes == get_eligible_validator_groups_votes(res)
    IN IF current_votes.raised # "none"
       THEN [raised |-> current_votes.raised, lesser |-> None,
             greater |-> None]
       ELSE LET votes == current_votes.list
                selected == HasKey(votes, voted_group)
                vote_total ==
                    IF ~selected THEN vote_weight
                    ELSE votes[PosOf(votes, voted_group)].value + vote_weight
                r == NeighbourScan(votes, 1, voted_group, vote_total,
                                   NULL_ADDRESS)
            IN [raised |-> "none", lesser |-> r.lesser,
                greater |-> r.greater]

\* `groups.index(group)`: the index from 0, None for the ValueError of a
\* group that is not in the list
IndexOf(groups, group) ==
    LET hits == {i \in 1..Len(groups) : groups[i] = group}
    IN IF hits = {} THEN None
       ELSE (CHOOSE i \in hits : \A j \in hits : i <= j) - 1

\* Election.revoke_pending / revoke_active (method is revokePending or
\* revokeActive): the contract call handed to the wallet, or the exception
revoke_one(method, res, groups, group, value) ==
    LET index == IndexOf(groups, group)
    IN IF index = None THEN [raised |-> "ValueError", txos |-> <<>>]
       ELSE LET lesser_greater ==
                    find_lesser_and_greater_after_vote(res, group, value * (-1))
            IN IF lesser_greater.raised # "none"
               THEN [raised |-> lesser_greater.raised, txos |-> <<>>]
               ELSE [raised |-> "none",
                     txos |-> <<[method |-> method, group |-> group,
                                 value |-> value,
                                 lesser |-> lesser_greater.lesser,
                                 greater |-> lesser_greater.greater,
                                 index |-> index]>>]

Min(a, b) == IF a < b THEN a ELSE b

\* Election.revoke with the account's pending and active votes for the
\* group as the contract reports them
revoke(res, groups, vote, group, value) ==
    IF value > vote.pending + vote.active
    THEN [raised |-> "Exception", txos |-> <<>>]
    ELSE LET pending_value == Min(vote.pending, value)
             first == IF pending_value > 0
                      THEN revoke_one("revokePending", res, groups, group,
                                      pending_value)
                      ELSE [raised |-> "none", txos |-> <<>>]
         IN IF first.raised # "none" THEN first
            ELSE IF pending_value < value
                 THEN LET second == revoke_one("revokeActive", res, groups,
                                               group, value - pending_value)
                      IN [raised |-> second.raised,
                          txos |-> first.txos \o second.txos]
                 ELSE first

\* the votes of an account for a group, the values it revokes and the
\* lists of groups it has voted for
VoteCounts == 0..2
RevokeArgs == 0..3
VotedGroupLists == {<<>>, <<1>>, <<2, 1>>, <<1, 2, 3>>}

\* Election.get_groups_voted_for_by_account: the wrapper calls the contract's
\* getGroupsVotedForByAccount without the account that every other call
\* site passes.  web3 checks the arguments against the contract's ABI, which
\* is not in the source: the call is rejected, or it answers with the list
get_groups_voted_for_by_account(groups, accepted_by_web3) ==
    IF accepted_by_web3 THEN [raised |-> "none", list |-> groups]
    ELSE [raised |-> "ValidationError", list |-> <<>>]

\* `for el in all_groups: if el['address'] == group: total_votes = el['value']`
TotalVotes(all_groups, group) ==
    LET hits == {i \in 1..Len(all_groups) : all_groups[i].address = group}
    IN IF hits = {} THEN None
       ELSE all_groups[CHOOSE i \in hits : \A j \in hits : i >= j].value

\* the loop of compute_decrements_for_slashing from voted group i on (ind is
\* i - 1); votes_of[g] is get_total_votes_for_group_by_account(g, account)
RECURSIVE DecrementsLoop(_, _, _, _, _, _)
DecrementsLoop(groups, i, difference, res, all_groups, votes_of) ==
    IF i > Len(groups) THEN [raised |-> "none", res |-> res]
    ELSE LET group == groups[i]
             total_votes == TotalVotes(all_groups, group)
         IN IF total_votes = None
            THEN [raised |-> "Exception", res |-> <<>>]
            ELSE LET votes == votes_of[group]
                     slashed_votes ==
                         IF votes < difference THEN votes ELSE difference
                     res1 == Append(res, [address |-> group,
                                          value |-> total_votes - slashed_votes,
                                          index |-> i - 1])
                 IN IF difference - slashed_votes = 0
                    THEN [raised |-> "none", res |-> res1]
                    ELSE DecrementsLoop(groups, i + 1,
                                        difference - slashed_votes, res1,
                                        all_groups, votes_of)

\* LockedGold.compute_decrements_for_slashing; voted is the answer of
\* get_groups_voted_for_by_account
compute_decrements_for_slashing(non_voting, penalty, all_groups, voted, votes_of) ==
    IF penalty < non_voting THEN [raised |-> "none", res |-> <<>>]
    ELSE IF voted.raised # "none"
         THEN [raised |-> voted.raised, res |-> <<>>]
         ELSE DecrementsLoop(voted.list, 1, penalty - non_voting, <<>>,
                             all_groups, votes_of)

\* `changes['indices'] = indices; return changes` on the dict of
\* linked_list_changes (keys lessers, greaters, sorted_list)
WithIndices(changes, changed) ==
    IF changes.raised THEN [raised |-> "Exception", changes |-> <<>>]
    ELSE [raised |-> "none",
          changes |-> [lessers |-> changes.lessers,
                       greaters |-> changes.greaters,
                       sorted_list |-> changes.list,
                       indices |-> [i \in 1..Len(changed) |->
                                       changed[i].index]]]

\* compute_parameters_for_slashing once the decrements are computed: they
\* are applied by linked_list_changes to the list passed in
ParametersOf(changed, groups) ==
    IF changed.raised # "none"
    THEN [raised |-> changed.raised, changes |-> <<>>]
    ELSE WithIndices(linked_list_changes(groups, changed.res), changed.res)

\* LockedGold.compute_parameters_for_slashing
compute_parameters_for_slashing(non_voting, penalty, groups, voted, votes_of) ==
    ParametersOf(compute_decrements_for_slashing(non_voting, penalty, groups,
                                                 voted, votes_of),
                 groups)

\* LockedGold.compute_initial_parameters_for_slashing on the contract's
\* answer res
compute_initial_parameters_for_slashing(non_voting, penalty, res, voted, votes_of) ==
    LET eligible == get_eligible_validator_groups_votes(res)
    IN IF eligible.raised # "none"
       THEN [raised |-> eligible.raised, changes |-> <<>>]
       ELSE compute_parameters_for_slashing(non_voting, penalty,
                                            eligible.list, voted, votes_of)

\* d[key] of a Python dict
GetItem(dict, key) ==
    IF key \in DOMAIN dict THEN [raised |-> "none", value |-> dict[key]]
    ELSE [raised |-> "KeyError", value |-> None]

NoSlashCall == [validator |-> <<>>, group |-> <<>>, group_list |-> <<>>]

\* slash from the contract call on: it takes the lessers, greaters and
\* indices of both computations
SlashCall(validator, group_list, slash_group) ==
    IF slash_group.raised # "none"
    THEN [raised |-> slash_group.raised, txo |-> NoSlashCall]
    ELSE [raised |-> "none",
          txo |-> [validator |-> validator, group |-> slash_group.changes,
                   group_list |-> group_list]]

\* slash from the group's computation on: it runs on slash_validator['list']
SlashGroup(validator, list, penalty, g) ==
    IF list.raised # "none"
    THEN [raised |-> list.raised, txo |-> NoSlashCall]
    ELSE SlashCall(validator, list.value,
                   compute_parameters_for_slashing(g.non_voting, penalty,
                                                   list.value, g.voted,
                                                   g.votes_of))

\* slash once the validator's parameters are computed
SlashValidator(slash_validator, penalty, g) ==
    IF slash_validator.raised # "none"
    THEN [raised |-> slash_validator.raised, txo |-> NoSlashCall]
    ELSE SlashGroup(slash_validator.changes,
                    GetItem(slash_validator.changes, "list"), penalty, g)

\* the slashers' slash: the validator's parameters, then the group's, then
\* the contract call with both; v and g are the validator's and the
\* group's [non_voting, voted, votes_of]
slash(penalty, res, v, g) ==
    SlashValidator(
        compute_initial_parameters_for_slashing(v.non_voting, penalty, res,
                                                v.voted, v.votes_of),
        penalty, g)

\* the account's non-voting locked gold, the penalties and the account's
\* votes for each group
NonVotingArgs == {0, 1}
PenaltyArgs == 0..3
VotesOfArgs ==
    {[g \in 1..3 |-> 1], [g \in 1..3 |-> 2], [g \in 1..3 |-> 3 - g]}

\* every wrapper call fetches the contract's state anew and keeps nothing,
\* so one call from each state of the contract shows all a call can do
FirstCall == wrapper_call.op = "none"

\* what a wrapper call leaves alone
WrapperOnly ==
    UNCHANGED <<walletVars, last_call, nonce_of, callVars, before,
                change_list, result, calls>>

\* a caller runs SortedOracles.find_lesser_and_greater_keys
call_find_lesser_and_greater_keys(value, oracle_address) ==
    /\ FirstCall
    /\ LET r == find_lesser_and_greater_keys(sorted_list, value,
                                             oracle_address)
       IN wrapper_call' = [op |-> "find_lesser_and_greater_keys",
                           key |-> oracle_address, value |-> value,
                           raised |-> "none", lesser |-> r.lesser,
                           greater |-> r.greater]
    /\ UNCHANGED sorted_list
    /\ WrapperOnly

\* a caller runs Election.find_lesser_and_greater_after_vote
call_find_lesser_and_greater_after_vote(voted_group, vote_weight) ==
    /\ FirstCall
    /\ LET r == find_lesser_and_greater_after_vote(sorted_list, voted_group,
                                                   vote_weight)
       IN wrapper_call' = [op |-> "find_lesser_and_greater_after_vote",
                           key |-> voted_group, value |-> vote_weight,
                           raised |-> r.raised, lesser |-> r.lesser,
                           greater |-> r.greater]
    /\ UNCHANGED sorted_list
    /\ WrapperOnly

\* a caller runs Election.revoke(account, group, value)
call_revoke(groups, vote, group, value) ==
    /\ FirstCall
    /\ LET r == revoke(sorted_list, groups, vote, group, value)
       IN wrapper_call' = [op |-> "revoke", key |-> group, value |-> value,
                           vote |-> vote, groups |-> groups,
                           raised |-> r.raised, txos |-> r.txos]
    /\ UNCHANGED sorted_list
    /\ WrapperOnly

\* a caller runs LockedGold.compute_decrements_for_slashing with the
\* fetched list as all_groups
call_compute_decrements_for_slashing(non_voting, penalty, groups, web3_ok, votes_of) ==
    /\ FirstCall
    /\ LET voted == get_groups_voted_for_by_account(groups, web3_ok)
           r == compute_decrements_for_slashing(non_voting, penalty,
                                                sorted_list, voted, votes_of)
       IN wrapper_call' = [op |-> "compute_decrements_for_slashing",
                           non_voting |-> non_voting, penalty |-> penalty,
                           groups |-> groups, votes_of |-> votes_of,
                           raised |-> r.raised, res |-> r.res]
    /\ UNCHANGED sorted_list
    /\ WrapperOnly

\* a caller runs a slasher's slash; the validator voted for vgs and its
\* group for ggs
call_slash(penalty, vgs, ggs, web3_ok, votes_of) ==
    /\ FirstCall
    /\ LET v == [non_voting |-> 0, votes_of |-> votes_of,
                 voted |-> get_groups_voted_for_by_account(vgs, web3_ok)]
           g == [non_voting |-> 0, votes_of |-> votes_of,
                 voted |-> get_groups_voted_for_by_account(ggs, web3_ok)]
           r == slash(penalty, sorted_list, v, g)
       IN wrapper_call' = [op |-> "slash", penalty |-> penalty,
                           validator_groups |-> vgs, group_groups |-> ggs,
                           votes_of |-> votes_of, web3_ok |-> web3_ok,
                           raised |-> r.raised, txo |-> r.txo]
    /\ UNCHANGED sorted_list
    /\ WrapperOnly

\* the contract holds a sorted list and no wrapper has been called
InitWrap ==
    /\ WalletInit
    /\ active_account.key = 1
    /\ ~gas_price_contract
    /\ CallersInit(Threads)
    /\ sorted_list \in ChainLists
    /\ before = sorted_list
    /\ change_list = <<>>
    /\ result = NoResult
    /\ calls = 0
    /\ wrapper_call = NoWrapperCall

NextWrap ==
    \/ \E v \in ValueArgs, a \in KeyArgs :
          call_find_lesser_and_greater_keys(v, a)
    \/ \E a \in KeyArgs, w \in WeightArgs :
          call_find_lesser_and_greater_after_vote(a, w)
    \/ \E gs \in VotedGroupLists, p \in VoteCounts, a \in VoteCounts,
          g \in {1, 2}, v \in RevokeArgs :
          call_revoke(gs, [pending |-> p, active |-> a], g, v)
    \/ \E n \in NonVotingArgs, p \in PenaltyArgs, gs \in VotedGroupLists,
          ok \in BOOLEAN, vs \in VotesOfArgs :
          call_compute_decrements_for_slashing(n, p, gs, ok, vs)
    \/ \E p \in PenaltyArgs, vgs \in VotedGroupLists,
          ggs \in VotedGroupLists, ok \in BOOLEAN, vs \in VotesOfArgs :
          call_slash(p, vgs, ggs, ok, vs)

SpecWrap == InitWrap /\ [][NextWrap]_vars

(* ------------------------ claims on the wrappers ---------------------- *)
\* find_lesser_and_greater_keys has returned
KeysFound == wrapper_call.op = "find_lesser_and_greater_keys"

\* position in l of the first entry with a value <= v, Len(l) + 1 if none
FirstAtMost(l, v) ==
    LET hits == {i \in 1..Len(l) : l[i].value <= v}
    IN IF hits = {} THEN Len(l) + 1
       ELSE CHOOSE i \in hits : \A j \in hits : i <= j

\* the list after the contract has put the entry of key a and value v
\* right behind the entry of key g (at the head when g is the zero address)
PutBehind(l, g, a, v) ==
    LET rest == Others(l, a)
        p == IF g = NULL_ADDRESS THEN 0 ELSE PosOf(rest, g)
    IN SubSeq(rest, 1, p) \o <<Entry(a, v)>> \o SubSeq(rest, p + 1, Len(rest))

KeysOf(l) == [i \in 1..Len(l) |-> l[i].address]

\* C21: on rates sorted from the greatest to the lowest,
\* find_lesser_and_greater_keys leaves the reporting oracle's own entry
\* out; lesser_key is the first other entry whose rate is <= the reported
\* value and greater_key the other entry right before it, whose rate is >
\* the value (the last other entry when none is <=); each is the zero
\* address when there is no such entry.  Put between them the report keeps
\* the list sorted; with rates 15, 20, 17 of oracles 1, 2, 3 and a report
\* of 16 by oracle 4, lesser = 1, greater = 3 and the order is 2, 3, 4, 1.
C21_OracleNeighbours ==
    KeysFound =>
        LET own == wrapper_call.key
            v == wrapper_call.value
            rest == Others(sorted_list, own)
            k == FirstAtMost(rest, v)
            after == PutBehind(sorted_list, wrapper_call.greater, own, v)
        IN /\ wrapper_call.lesser = KeyAt(rest, k)
           /\ wrapper_call.greater = KeyAt(rest, k - 1)
           /\ wrapper_call.greater # NULL_ADDRESS => rest[k - 1].value > v
           /\ KeyAt(after, PosOf(after, own) + 1) = wrapper_call.lesser
           /\ NonIncreasing(after)
           /\ (sorted_list = RatesExample /\ own = 4 /\ v = 16)
                 => /\ wrapper_call.lesser = 1
                    /\ wrapper_call.greater = 3
                    /\ KeysOf(after) = <<2, 3, 4, 1>>

\* the report of the test has got its keys
C21_Witness ==
    /\ KeysFound
    /\ sorted_list = RatesExample
    /\ wrapper_call.key = 4
    /\ wrapper_call.value = 16
    /\ wrapper_call.lesser = 1
    /\ wrapper_call.greater = 3

\* find_lesser_and_greater_after_vote has ended
VoteKeysCalled == wrapper_call.op = "find_lesser_and_greater_after_vote"

\* C22: on every sorted list that holds the key, and for every new value,
\* SortedOracles.find_lesser_and_greater_keys and
\* Election.find_lesser_and_greater_after_vote return the lesser and
\* greater keys that linked_list_change returns for the change
\* (key, new value) on that list.
C22_WrappersAgreeWithGeneric ==
    /\ (KeysFound /\ HasKey(sorted_list, wrapper_call.key)) =>
          LET g == linked_list_change(
                       sorted_list, Entry(wrapper_call.key, wrapper_call.value))
          IN wrapper_call.lesser = g.lesser /\ wrapper_call.greater = g.greater
    /\ (VoteKeysCalled /\ HasKey(sorted_list, wrapper_call.key)) =>
          LET old == sorted_list[PosOf(sorted_list, wrapper_call.key)].value
              g == linked_list_change(
                       sorted_list,
                       Entry(wrapper_call.key, old + wrapper_call.value))
          IN /\ wrapper_call.raised = "none"
             /\ wrapper_call.lesser = g.lesser
             /\ wrapper_call.greater = g.greater

\* a call of one of the three utilities has returned
UtilityReturned == result.op # "none" /\ ~result.raised
KeySet(l) == {l[i].address : i \in 1..Len(l)}
\* the keys the changes of the last call name
ChangedKeys == KeySet(change_list)
\* the entries of l whose key is not in K, in their order
Without(l, K) == SelectSeq(l, LAMBDA e : e.address \notin K)

\* C23: after every successful upsert, linked_list_change or
\* linked_list_changes on a list of distinct keys, and so after any
\* sequence of them, the list still has distinct keys, the same keys and
\* the same length, and the entries the changes do not name keep their
\* values and their order among themselves.
C23_KeysAndOthersKept ==
    UtilityReturned =>
        /\ DistinctKeys(sorted_list)
        /\ KeySet(sorted_list) = KeySet(before)
        /\ Len(sorted_list) = Len(before)
        /\ Without(sorted_list, ChangedKeys) = Without(before, ChangedKeys)

\* the second call on a list has returned, a batch of two changes that
\* moved entries and left a third one alone
C23_Witness ==
    /\ UtilityReturned
    /\ calls = 2
    /\ BatchCalled
    /\ Cardinality(ChangedKeys) = 2
    /\ Len(before) = 3
    /\ KeysOf(sorted_list) # KeysOf(before)

(* ------------------- frame of the send pipeline ----------------------- *)
\* a step of send_transaction, of its construct_transaction, its
\* sign_transaction or its broadcast
SendStep ==
    \/ \E t \in Callers, g \in CallGasArgs : send_transaction(t, g)
    \/ \E t \in Callers :
          construct_step(t) \/ sign_step(t) \/ push_step(t) \/ return_step(t)

\* the first attempt of a call without a gas argument is built with the
\* wallet's gas limit
FirstBuildUsesWalletGas ==
    \A t \in Callers :
        (construct_step(t) /\ depth[t] = 0 /\ ~Truthy(call_gas[t])
            /\ tx'[t] # <<>>)
          => tx'[t][1]["gas"] = gas

\* C24: send_transaction, construct_transaction and sign_transaction leave
\* the wallet's configuration and keys as they were: fee currency, gas
\* price, default gas limit, gateway fee fields, gas-price wrapper, account
\* mapping and active account; also when the gas was increased for a retry,
\* which is used by the retried attempt only: a later send is built with
\* the unchanged default gas limit.
C24_SendLeavesWalletAlone ==
    [][(SendStep => UNCHANGED walletVars) /\ FirstBuildUsesWalletGas]_vars

\* a retried attempt has been built with increased gas while the wallet's
\* gas limit is the one of construction
C24_Witness ==
    \E t \in Callers :
        /\ depth[t] = 1
        /\ Len(txs[t]) = 2
        /\ txs[t][2]["gas"] = DefaultGas + GasIncreaseStep
        /\ gas = DefaultGas
        /\ fee_currency # None

RevokeCalled == wrapper_call.op = "revoke"
\* method and amount of the transactions revoke has sent, in their order
SentRevocations ==
    [i \in 1..Len(wrapper_call.txos) |->
        <<wrapper_call.txos[i].method, wrapper_call.txos[i].value>>]

\* C25: Election.revoke raises and sends nothing when value exceeds the
\* account's pending plus active votes for the group; otherwise it sends
\* revokePending for min(pending, value) if that is > 0 and then
\* revokeActive for the rest of value if that is > 0, nothing else, so the
\* amounts sum to value.
C25_RevokePendingThenActive ==
    (RevokeCalled /\ IndexOf(wrapper_call.groups, wrapper_call.key) # None) =>
        LET value == wrapper_call.value
            pending == wrapper_call.vote.pending
            active == wrapper_call.vote.active
            p == Min(pending, value)
        IN IF value > pending + active
           THEN wrapper_call.raised # "none" /\ wrapper_call.txos = <<>>
           ELSE /\ wrapper_call.raised = "none"
                /\ SentRevocations =
                      (IF p > 0 THEN <<<<"revokePending", p>>>> ELSE <<>>)
                      \o (IF value - p > 0
                          THEN <<<<"revokeActive", value - p>>>> ELSE <<>>)

DecrementsCalled == wrapper_call.op = "compute_decrements_for_slashing"
RECURSIVE SumOver(_, _)
\* sum of f[i] over the set S of indices
SumOver(f, S) ==
    IF S = {} THEN 0
    ELSE LET i == CHOOSE x \in S : TRUE IN f[i] + SumOver(f, S \ {i})

\* C26: compute_decrements_for_slashing returns no decrement when penalty <
\* the account's non-voting gold; otherwise it fails if a voted group is
\* missing from the group list, and else walks the voted groups in order:
\* what it takes from a group (the group's total minus the returned value)
\* is at most the account's votes for it, the amounts sum to
\* min(penalty - nonVoting, the account's votes over its groups), and the
\* index of a returned entry is the group's position among the voted
\* groups.
C26_DecrementsForSlashing ==
    DecrementsCalled =>
        LET w == wrapper_call
            n == Len(w.res)
            taken == [i \in 1..n |->
                        TotalVotes(sorted_list, w.res[i].address)
                            - w.res[i].value]
            all_votes == SumOver([i \in 1..Len(w.groups) |->
                                     w.votes_of[w.groups[i]]],
                                 1..Len(w.groups))
        IN IF w.penalty < w.non_voting
           THEN w.raised = "none" /\ w.res = <<>>
           ELSE IF \E i \in 1..Len(w.groups) :
                      ~HasKey(sorted_list, w.groups[i])
           THEN w.raised # "none"
           ELSE /\ w.raised = "none"
                /\ \A i \in 1..n :
                      /\ w.res[i].address = w.groups[i]
                      /\ w.res[i].index = i - 1
                      /\ taken[i] >= 0
                      /\ taken[i] <= w.votes_of[w.groups[i]]
                /\ SumOver(taken, 1..n)
                      = Min(w.penalty - w.non_voting, all_votes)

SlashCalled == wrapper_call.op = "slash"
\* what the validator's slashing computation does to the fetched list
ValidatorParameters ==
    compute_parameters_for_slashing(
        0, wrapper_call.penalty, sorted_list,
        [raised |-> "none", list |-> wrapper_call.validator_groups],
        wrapper_call.votes_of)

\* C27: in slash the group's slashing parameters are computed on the sorted
\* list that the validator's computation produced (the fetched list with
\* the validator's decrements applied), and the lessers, greaters and
\* indices of each computation have one element per decrement.
C27_GroupComputedOnValidatorsList ==
    (SlashCalled /\ ValidatorParameters.raised = "none") =>
        /\ wrapper_call.raised = "none"
        /\ LET txo == wrapper_call.txo
           IN /\ txo.group_list = ValidatorParameters.changes.sorted_list
              /\ \A c \in {txo.validator, txo.group} :
                    /\ Len(c.lessers) = Len(c.indices)
                    /\ Len(c.greaters) = Len(c.indices)

\* linked_list_change returned for a change of a key the sorted input held
SortedChangeReturned ==
    /\ ChangeReturned
    /\ NonIncreasing(before)
    /\ HasKey(before, TheChange.address)
\* value of the entry of key a in l
ValueOf(l, a) == l[PosOf(l, a)].value

\* C28: on an input in non-increasing order and a change of a present key,
\* the neighbours linked_list_change returns bracket the new value: the
\* entry named by greater (unless the zero address) has value >= the new
\* value, the entry named by lesser (unless the zero address) has value <
\* the new value, and the resulting list is again in non-increasing order,
\* ties included.
C28_NeighboursBracketValue ==
    SortedChangeReturned =>
        /\ greater # NULL_ADDRESS =>
              ValueOf(sorted_list, greater) >= TheChange.value
        /\ lesser # NULL_ADDRESS =>
              ValueOf(sorted_list, lesser) < TheChange.value
        /\ NonIncreasing(sorted_list)

\* a change to a value another entry already has, placed behind that entry
\* and in front of a smaller one
C28_Witness ==
    /\ SortedChangeReturned
    /\ greater # NULL_ADDRESS
    /\ lesser # NULL_ADDRESS
    /\ ValueOf(sorted_list, greater) = TheChange.value
    /\ PosOf(before, TheChange.address) # PosOf(sorted_list, TheChange.address)

\* C29: linked_list_change is idempotent on sorted input: after a change has
\* been applied to a list in non-increasing order, applying the same change
\* again yields the same list and the same lesser / greater pair.
C29_SameChangeAgain ==
    (ChangeReturned /\ NonIncreasing(before)) =>
        LET again == linked_list_change(sorted_list, TheChange)
        IN /\ ~again.raised
           /\ again.list = sorted_list
           /\ again.lesser = lesser
           /\ again.greater = greater

\* the change moved an entry of the sorted input between two others
C29_Witness ==
    /\ ChangeReturned
    /\ NonIncreasing(before)
    /\ sorted_list # before
    /\ PosOf(before, TheChange.address) # PosOf(sorted_list, TheChange.address)
    /\ greater # NULL_ADDRESS
    /\ lesser # NULL_ADDRESS

\* the first change of the last batch that raises
FailedAt ==
    CHOOSE k \in 1..Len(change_list) :
        /\ TurnOf(before, change_list, k).raised
        /\ \A i \in 1..(k - 1) : ~TurnOf(before, change_list, i).raised

\* C30: when upsert raises because the key is absent the list is left as
\* it was; when linked_list_changes fails on its k-th change the list keeps
\* the first k-1 changes applied and no lessers / greaters are returned.
C30_FailureKeepsEarlierChanges ==
    /\ (SingleChange /\ result.raised) =>
          /\ ~HasKey(before, TheChange.address)
          /\ sorted_list = before
    /\ (BatchCalled /\ result.raised) =>
          /\ sorted_list = AppliedInTurn(before, change_list, FailedAt - 1)
          /\ result.lessers = <<>>
          /\ result.greaters = <<>>

\* a batch that failed on its second change after its first one moved an
\* entry
C30_Witness ==
    /\ BatchCalled
    /\ result.raised
    /\ FailedAt = 2
    /\ sorted_list # before
    /\ sorted_list = linked_list_change(before, change_list[1]).list

====
